---------------------------- MODULE Spec2Model ----------------------------
(***************************************************************************)
(* A2A sensor fusion: the orchestration pipeline of the FusionAgent        *)
(* (prototype 3 and prototype 4), the MCP client it drives, and the two    *)
(* tools of the MCP server (validate_sensor_data, normalize_sensor_data).  *)
(*                                                                         *)
(* Numbers.  Ranges and azimuths are whole metres / whole degrees.  A      *)
(* value the code rounds to 2 decimals (x_pos, y_pos, confidence) is kept  *)
(* in hundredths: confidence 80 stands for 0.80, x_pos 100000 for 1000.0.  *)
(* Before rounding such a value is kept in units of 10^-5.                 *)
(***************************************************************************)
EXTENDS Integers, Sequences, FiniteSets, TLC

VARIABLES
    proto,              \* which FusionAgent runs: 3 (prototype_3) or 4 (prototype_4)
    use_discovery,      \* FusionAgent.use_discovery (prototype 3)
    caller,             \* the call in progress or last made: execute_fusion, or
                        \* discover_agents called on its own
    runs,               \* number of calls started so far
    discovered,         \* history: agent-id -> the cards its successful
                        \* discoveries obtained, oldest first
    pc,                 \* position of execute_fusion
    registry,           \* prototype 3: FusionAgent.registry.agents, agent-id -> card
    radar_card,         \* prototype 4: FusionAgent.radar_card  (<<>> is None)
    visual_card,        \* prototype 4: FusionAgent.visual_card (<<>> is None)
    discovery_log,      \* what discover_agents printed in this run
    radar_call,         \* the radar agent call of this run: idle, inflight, ok, failed
    visual_call,        \* the visual agent call of this run
    radar_data,         \* local radar_data   (<<>> until parsed)
    visual_data,        \* local visual_data  (<<>> until parsed)
    mcp_client,         \* MCPClient: started, _client, _exit_stack, open connections
    validation,         \* local validation (<<>> until returned)
    normalized_target,  \* local normalized_target (<<>> until returned)
    run_log,            \* what execute_fusion printed about the validation
    mcp_calls,          \* tool calls this run sent to the MCP server, in order
    pending,            \* exception raised inside try, travelling through finally
    outcome,            \* how the last execute_fusion ended
    report,             \* the report the last execute_fusion returned (<<>> if none)
    tool_request,       \* last tool call a client made on the MCP server directly
    tool_response,      \* what the server answered to it
    tool_history,       \* a client session: its calls so far and their answers
    client_log,         \* calls made on an MCPClient directly, and how each ended
    executor,           \* an agent executor's execute() call: agent, position, locals
    event_queue,        \* the events that call has enqueued, in order
    executions          \* number of execute() calls started so far

vars == <<proto, use_discovery, caller, runs, discovered, pc, registry,
          radar_card, visual_card, discovery_log, radar_call, visual_call,
          radar_data, visual_data, mcp_client, validation, normalized_target,
          run_log, mcp_calls, pending, outcome, report, tool_request,
          tool_response, tool_history, client_log, executor, event_queue,
          executions>>

fusion_vars == <<proto, use_discovery, caller, runs, discovered, pc,
                 registry, radar_card, visual_card, discovery_log, radar_call, visual_call,
                 radar_data, visual_data, mcp_client, validation,
                 normalized_target, run_log, mcp_calls, pending, outcome,
                 report>>

exec_vars == <<executor, event_queue, executions>>

tool_vars == <<tool_request, tool_response, tool_history, client_log,
               exec_vars>>

(***************************************************************************)
(* Bounds of the model.                                                    *)
(***************************************************************************)
MaxRuns == 2
MaxCalls == 3
MaxOps == 4
MaxExecutions == 2

None == <<>>
Some(x) == <<x>>
Max(a, b) == IF a >= b THEN a ELSE b

(***************************************************************************)
(* Inputs.                                                                 *)
(***************************************************************************)
RangeInputs == {-1, 0, 500, 1000, 3000, 10000, 10001, 12000}
TrigAzimuths == {-29, 0, 29, 61, 90, 180, 270, 360, 389, 450}
AzimuthInputs == TrigAzimuths \cup {-1, 361, 400}
CertaintyInputs == (-5 .. 105) \cup {150}
Classifications == {"drone", "aircraft", "vessel", "unknown"}

(***************************************************************************)
(* math.cos / math.sin of math.radians(a), in units of 10^-5, for the      *)
(* azimuths of TrigAzimuths (for these and the ranges of RangeInputs the   *)
(* product, rounded to 2 decimals, is the one the float arithmetic gives). *)
(* At 90, 270 and 450 degrees the float cosine is of the order 10^-16 and  *)
(* vanishes under the rounding to 2 decimals.                              *)
(***************************************************************************)
cos(a) ==
    CASE a = -29 -> 87462
      [] a = 0   -> 100000
      [] a = 29  -> 87462
      [] a = 61  -> 48481
      [] a = 90  -> 0
      [] a = 180 -> -100000
      [] a = 270 -> 0
      [] a = 360 -> 100000
      [] a = 389 -> 87462
      [] a = 450 -> 0

sin(a) ==
    CASE a = -29 -> -48481
      [] a = 0   -> 0
      [] a = 29  -> 48481
      [] a = 61  -> 87462
      [] a = 90  -> 100000
      [] a = 180 -> 0
      [] a = 270 -> -100000
      [] a = 360 -> 0
      [] a = 389 -> 48481
      [] a = 450 -> 100000

(***************************************************************************)
(* round(v, 2) of a value v given in units of 10^-5: the nearest           *)
(* hundredth, ties to the even one.                                        *)
(***************************************************************************)
round(v) ==
    LET q == v \div 1000
        r == v % 1000
    IN  IF 2 * r < 1000 THEN q
        ELSE IF 2 * r > 1000 THEN q + 1
        ELSE IF q % 2 = 0 THEN q ELSE q + 1

(***************************************************************************)
(* str.upper() on the classification labels.                               *)
(***************************************************************************)
upper_identity(s) == s

upper(s) ==
    CASE s = "drone"    -> "DRONE"
      [] s = "aircraft" -> "AIRCRAFT"
      [] s = "vessel"   -> "VESSEL"
      [] s = "unknown"  -> "UNKNOWN"
      [] OTHER          -> s

(***************************************************************************)
(* MCP server tool normalize_sensor_data.                                  *)
(***************************************************************************)
normalize_confidence_floordiv(visual_certainty_percent) ==
    (visual_certainty_percent \div 100) * 100000

normalize_confidence(visual_certainty_percent) ==
    visual_certainty_percent * 1000

normalize_sensor_data_swapped(radar_range_meters, radar_azimuth_degrees, visual_classification, visual_certainty_percent) ==
    [x_pos |-> round(radar_range_meters * sin(radar_azimuth_degrees)),
     y_pos |-> round(radar_range_meters * cos(radar_azimuth_degrees)),
     target_type |-> upper(visual_classification),
     confidence |-> round(normalize_confidence(visual_certainty_percent))]

normalize_sensor_data_smoothed(radar_range_meters, radar_azimuth_degrees, visual_classification, visual_certainty_percent) ==
    LET earlier == {i \in DOMAIN tool_history :
                       tool_history[i].request.tool = "normalize_sensor_data"}
        last == CHOOSE i \in earlier : \A j \in earlier : j <= i
        confidence == round(normalize_confidence(visual_certainty_percent))
    IN  [x_pos |-> round(radar_range_meters * cos(radar_azimuth_degrees)),
         y_pos |-> round(radar_range_meters * sin(radar_azimuth_degrees)),
         target_type |-> upper(visual_classification),
         confidence |->
             IF earlier = {} THEN confidence
             ELSE (tool_history[last].response.confidence + confidence)
                      \div 2]

normalize_sensor_data(radar_range_meters, radar_azimuth_degrees, visual_classification, visual_certainty_percent) ==
    LET x_pos == radar_range_meters * cos(radar_azimuth_degrees)
        y_pos == radar_range_meters * sin(radar_azimuth_degrees)
        confidence == normalize_confidence(visual_certainty_percent)
        target_type == upper(visual_classification)
    IN  [x_pos |-> round(x_pos),
         y_pos |-> round(y_pos),
         target_type |-> target_type,
         confidence |-> round(confidence)]

(***************************************************************************)
(* Prototype 2, mcp_tool.data_normalization_tool: the same transform run   *)
(* in process.  x_pos and y_pos are rounded to 2 decimals (hundredths);    *)
(* the confidence is returned as computed, not rounded, and so stays in    *)
(* units of 10^-5.                                                         *)
(***************************************************************************)
data_normalization_tool_truncating(range_meters, azimuth_degrees, classification, certainty_percent) ==
    [x_pos |-> (range_meters * cos(azimuth_degrees)) \div 1000,
     y_pos |-> (range_meters * sin(azimuth_degrees)) \div 1000,
     target_type |-> upper(classification),
     confidence |-> certainty_percent * 1000]

data_normalization_tool(range_meters, azimuth_degrees, classification, certainty_percent) ==
    LET x == range_meters * cos(azimuth_degrees)
        y == range_meters * sin(azimuth_degrees)
        confidence == certainty_percent * 1000
        target_type == upper(classification)
    IN  [x_pos |-> round(x),
         y_pos |-> round(y),
         target_type |-> target_type,
         confidence |-> confidence]

(***************************************************************************)
(* MCP server tool validate_sensor_data.  Each check yields the warnings   *)
(* it appends and the amount it takes from quality_score.                  *)
(***************************************************************************)
RangeLimit == 10000
AzimuthMax == 360
LowCertainty == 50
ModerateCertainty == 70
AcceptAbove == 70
RejectAtOrBelow == 30

WarnNegativeRange == "Negative radar range detected - invalid"
WarnRangeLimit == "Radar range exceeds typical detection limit"
WarnAzimuth == "Azimuth outside valid range (0-360 degrees)"
WarnLowCertainty == "Low visual classification confidence"
WarnModerateCertainty == "Moderate visual classification confidence"

check_range_inclusive(radar_range_meters) ==
    IF radar_range_meters < 0
    THEN [warnings |-> <<WarnNegativeRange>>, deduction |-> 50]
    ELSE IF radar_range_meters >= RangeLimit
    THEN [warnings |-> <<WarnRangeLimit>>, deduction |-> 10]
    ELSE [warnings |-> <<>>, deduction |-> 0]

check_range_swapped(radar_range_meters) ==
    IF radar_range_meters < 0
    THEN [warnings |-> <<WarnNegativeRange>>, deduction |-> 10]
    ELSE IF radar_range_meters > RangeLimit
    THEN [warnings |-> <<WarnRangeLimit>>, deduction |-> 50]
    ELSE [warnings |-> <<>>, deduction |-> 0]

check_range(radar_range_meters) ==
    IF radar_range_meters < 0
    THEN [warnings |-> <<WarnNegativeRange>>, deduction |-> 50]
    ELSE IF radar_range_meters > RangeLimit
    THEN [warnings |-> <<WarnRangeLimit>>, deduction |-> 10]
    ELSE [warnings |-> <<>>, deduction |-> 0]

check_azimuth_heavy(radar_azimuth_degrees) ==
    IF ~(0 <= radar_azimuth_degrees /\ radar_azimuth_degrees <= AzimuthMax)
    THEN [warnings |-> <<WarnAzimuth>>, deduction |-> 40]
    ELSE [warnings |-> <<>>, deduction |-> 0]

check_azimuth(radar_azimuth_degrees) ==
    IF ~(0 <= radar_azimuth_degrees /\ radar_azimuth_degrees <= AzimuthMax)
    THEN [warnings |-> <<WarnAzimuth>>, deduction |-> 30]
    ELSE [warnings |-> <<>>, deduction |-> 0]

check_certainty_inclusive(visual_certainty_percent) ==
    IF visual_certainty_percent <= LowCertainty
    THEN [warnings |-> <<WarnLowCertainty>>, deduction |-> 20]
    ELSE IF visual_certainty_percent <= ModerateCertainty
    THEN [warnings |-> <<WarnModerateCertainty>>, deduction |-> 10]
    ELSE [warnings |-> <<>>, deduction |-> 0]

check_certainty(visual_certainty_percent) ==
    IF visual_certainty_percent < LowCertainty
    THEN [warnings |-> <<WarnLowCertainty>>, deduction |-> 20]
    ELSE IF visual_certainty_percent < ModerateCertainty
    THEN [warnings |-> <<WarnModerateCertainty>>, deduction |-> 10]
    ELSE [warnings |-> <<>>, deduction |-> 0]

recommend_inclusive(quality_score) ==
    IF quality_score >= AcceptAbove THEN "ACCEPT"
    ELSE IF quality_score >= RejectAtOrBelow THEN "REVIEW"
    ELSE "REJECT"

recommend(quality_score) ==
    IF quality_score > AcceptAbove THEN "ACCEPT"
    ELSE IF quality_score > RejectAtOrBelow THEN "REVIEW"
    ELSE "REJECT"

compute_is_valid_strict(warnings, quality_score) ==
    Len(warnings) = 0

compute_is_valid(warnings, quality_score) ==
    Len(warnings) = 0 \/ quality_score > RejectAtOrBelow

validate_sensor_data(radar_range_meters, radar_azimuth_degrees, visual_certainty_percent) ==
    LET r == check_range(radar_range_meters)
        a == check_azimuth(radar_azimuth_degrees)
        c == check_certainty(visual_certainty_percent)
        warnings == r.warnings \o a.warnings \o c.warnings
        quality_score == ((100 - r.deduction) - a.deduction) - c.deduction
    IN  [is_valid |-> compute_is_valid(warnings, quality_score),
         quality_score |-> Max(0, quality_score),
         warnings |-> warnings,
         recommendation |-> recommend(quality_score)]

(***************************************************************************)
(* models.py: the pydantic models.  Constructing one validates its fields; *)
(* a field that fails raises ValidationError (None here).                  *)
(***************************************************************************)
NormalizedTarget(data) ==
    IF 0 <= data.confidence /\ data.confidence <= 100
    THEN Some([x_pos |-> data.x_pos, y_pos |-> data.y_pos,
               target_type |-> data.target_type,
               confidence |-> data.confidence,
               source_sensors |-> <<>>])
    ELSE None

RadarData(payload) ==
    IF {"range_meters", "azimuth_degrees"} \subseteq payload.fields
    THEN Some([range_meters |-> payload.range_meters,
               azimuth_degrees |-> payload.azimuth_degrees])
    ELSE None

VisualData(payload) ==
    IF /\ {"classification", "certainty_percent"} \subseteq payload.fields
       /\ payload.classification \in Classifications
       /\ 0 <= payload.certainty_percent
       /\ payload.certainty_percent <= 100
    THEN Some([classification |-> payload.classification,
               certainty_percent |-> payload.certainty_percent])
    ELSE None

(***************************************************************************)
(* The agent registry of prototype 3: agent-id -> card.                    *)
(***************************************************************************)
AgentRegistry == [a \in {} |-> None]

register_agent(agents, agent_id, card) ==
    [a \in DOMAIN agents \cup {agent_id} |->
        IF a = agent_id THEN card ELSE agents[a]]

find_agents_by_skill(agents, skill_id) ==
    {a \in DOMAIN agents : skill_id \in agents[a].skills}

(***************************************************************************)
(* State after construction: FusionAgent.__init__ and MCPClient.__init__.  *)
(***************************************************************************)
NoOutcome == [kind |-> "none", error |-> "none", agent |-> "none"]

NoRequest ==
    [tool |-> "none", radar_range_meters |-> 0, radar_azimuth_degrees |-> 0,
     visual_classification |-> "none", visual_certainty_percent |-> 0]

MCPClientInit ==
    [started |-> FALSE, _exit_stack |-> FALSE, _client |-> FALSE,
     connections |-> 0]

NoExecution ==
    [agent |-> "none", pc |-> "idle", sector_id |-> "none", reading |-> None,
     enqueue_failed |-> FALSE]

NoDiscoveries == [a \in {} |-> <<>>]

FusionInit ==
    /\ proto \in {3, 4}
    /\ use_discovery \in (IF proto = 3 THEN BOOLEAN ELSE {TRUE})
    /\ caller = "none"
    /\ runs = 0
    /\ discovered = NoDiscoveries
    /\ pc = "idle"
    /\ registry = AgentRegistry
    /\ radar_card = None
    /\ visual_card = None
    /\ discovery_log = {}
    /\ radar_call = "idle"
    /\ visual_call = "idle"
    /\ radar_data = None
    /\ visual_data = None
    /\ mcp_client = MCPClientInit
    /\ validation = None
    /\ normalized_target = None
    /\ run_log = {}
    /\ mcp_calls = <<>>
    /\ pending = "none"
    /\ outcome = NoOutcome
    /\ report = None

(***************************************************************************)
(* What the remote agents may answer.  A card request yields a card or     *)
(* fails (unreachable agent, malformed card).  A task yields a transport   *)
(* failure or a payload, which the orchestrator deserializes.              *)
(***************************************************************************)
RadarCards ==
    [name : {"Radar Sensor Agent"}, version : {1, 2},
     skills : {{"radar_detection"}}]
        \cup [name : {"Radar Sensor Agent"}, version : {1}, skills : {{}}]

VisualCards ==
    [name : {"Visual Sensor Agent"}, version : {1, 2},
     skills : {{"visual_classification"}}]
        \cup [name : {"Visual Sensor Agent"}, version : {1}, skills : {{}}]

CardResponses(cards) == {None} \cup {Some(c) : c \in cards}

ErrorPayload ==
    [fields |-> {"error"}, range_meters |-> 0, azimuth_degrees |-> 0,
     classification |-> "none", certainty_percent |-> 0]

RadarPayload(r, a) ==
    [fields |-> {"range_meters", "azimuth_degrees", "timestamp"},
     range_meters |-> r, azimuth_degrees |-> a,
     classification |-> "none", certainty_percent |-> 0]

VisualPayload(k, c) ==
    [fields |-> {"classification", "certainty_percent", "timestamp"},
     range_meters |-> 0, azimuth_degrees |-> 0,
     classification |-> k, certainty_percent |-> c]

RadarPayloads ==
    {RadarPayload(1000, 90), RadarPayload(-1, 0), RadarPayload(500, 389),
     RadarPayload(12000, 61), ErrorPayload}

VisualPayloads ==
    {VisualPayload("drone", 80), VisualPayload("vessel", 40),
     VisualPayload("aircraft", 60), VisualPayload("unknown", 100),
     VisualPayload("drone", 150), VisualPayload("tank", 80), ErrorPayload}

TaskResponses(payloads) ==
    [status : {"timeout", "connect_error"}, payload : {ErrorPayload}]
        \cup [status : {"ok"}, payload : payloads]

Raised(error, agent) == [kind |-> "raised", error |-> error, agent |-> agent]

(***************************************************************************)
(* FusionAgent.execute_fusion, entry.  Prototype 3 discovers only when     *)
(* use_discovery is set and the registry is empty; prototype 4 always.     *)
(***************************************************************************)
needs_discovery_whenever_enabled ==
    IF proto = 3 THEN use_discovery ELSE TRUE

needs_discovery ==
    IF proto = 3 THEN use_discovery /\ DOMAIN registry = {} ELSE TRUE

fresh_locals ==
    /\ discovery_log' = {}
    /\ radar_call' = "idle"
    /\ visual_call' = "idle"
    /\ radar_data' = None
    /\ visual_data' = None
    /\ validation' = None
    /\ normalized_target' = None
    /\ run_log' = {}
    /\ mcp_calls' = <<>>
    /\ pending' = "none"
    /\ outcome' = NoOutcome
    /\ report' = None

execute_fusion ==
    /\ pc \in {"idle", "done"}
    /\ runs < MaxRuns
    /\ runs' = runs + 1
    /\ caller' = "execute_fusion"
    /\ pc' = IF needs_discovery THEN "discover_radar" ELSE "send_radar"
    /\ fresh_locals
    /\ UNCHANGED <<proto, use_discovery, discovered, registry, radar_card,
                   visual_card, mcp_client, tool_vars>>

(***************************************************************************)
(* FusionAgent.discover_agents is public: a caller may run it on its own,  *)
(* also when agents are registered already.                                *)
(***************************************************************************)
discover_agents ==
    /\ pc \in {"idle", "done"}
    /\ runs < MaxRuns
    /\ runs' = runs + 1
    /\ caller' = "discover_agents"
    /\ pc' = "discover_radar"
    /\ fresh_locals
    /\ UNCHANGED <<proto, use_discovery, discovered, registry, radar_card,
                   visual_card, mcp_client, tool_vars>>

after_discovery == IF caller = "execute_fusion" THEN "send_radar" ELSE "done"

(***************************************************************************)
(* FusionAgent.discover_agents, prototype 3: each fetch in its own         *)
(* try/except; after the second one the required skills are checked.       *)
(***************************************************************************)
fetched(history, agent_id, resp) ==
    IF resp = None THEN history
    ELSE [a \in DOMAIN history \cup {agent_id} |->
             IF a = agent_id
             THEN (IF a \in DOMAIN history THEN history[a] ELSE <<>>)
                      \o <<resp[1]>>
             ELSE history[a]]

skill_warnings_by_agent(agents) ==
    (IF "radar_agent" \notin DOMAIN agents
     THEN {"no_radar_detection"} ELSE {})
        \cup (IF "visual_agent" \notin DOMAIN agents
              THEN {"no_visual_classification"} ELSE {})

skill_warnings(agents) ==
    (IF find_agents_by_skill(agents, "radar_detection") = {}
     THEN {"no_radar_detection"} ELSE {})
        \cup (IF find_agents_by_skill(agents, "visual_classification") = {}
              THEN {"no_visual_classification"} ELSE {})

P3_discover_radar_keep_first(resp) ==
    /\ proto = 3
    /\ pc = "discover_radar"
    /\ IF resp # None
       THEN /\ registry' = IF "radar_agent" \in DOMAIN registry THEN registry
                           ELSE register_agent(registry, "radar_agent",
                                               resp[1])
            /\ discovery_log' = discovery_log \cup {"radar_ok"}
       ELSE /\ registry' = registry
            /\ discovery_log' = discovery_log \cup {"radar_failed"}
    /\ discovered' = fetched(discovered, "radar_agent", resp)
    /\ pc' = "discover_visual"
    /\ UNCHANGED <<proto, use_discovery, caller, runs, radar_card,
                   visual_card, radar_call, visual_call, radar_data,
                   visual_data, mcp_client, validation, normalized_target,
                   run_log, mcp_calls, pending, outcome, report, tool_vars>>

P3_discover_radar(resp) ==
    /\ proto = 3
    /\ pc = "discover_radar"
    /\ IF resp # None
       THEN /\ registry' = register_agent(registry, "radar_agent", resp[1])
            /\ discovery_log' = discovery_log \cup {"radar_ok"}
       ELSE /\ registry' = registry
            /\ discovery_log' = discovery_log \cup {"radar_failed"}
    /\ discovered' = fetched(discovered, "radar_agent", resp)
    /\ pc' = "discover_visual"
    /\ UNCHANGED <<proto, use_discovery, caller, runs, radar_card,
                   visual_card, radar_call, visual_call, radar_data,
                   visual_data, mcp_client, validation, normalized_target,
                   run_log, mcp_calls, pending, outcome, report, tool_vars>>

P3_discover_visual(resp) ==
    /\ proto = 3
    /\ pc = "discover_visual"
    /\ registry' = IF resp # None
                   THEN register_agent(registry, "visual_agent", resp[1])
                   ELSE registry
    /\ discovery_log' =
           (discovery_log
               \cup {IF resp # None THEN "visual_ok" ELSE "visual_failed"})
               \cup skill_warnings(registry')
    /\ discovered' = fetched(discovered, "visual_agent", resp)
    /\ pc' = after_discovery
    /\ UNCHANGED <<proto, use_discovery, caller, runs, radar_card,
                   visual_card, radar_call, visual_call, radar_data,
                   visual_data, mcp_client, validation, normalized_target,
                   run_log, mcp_calls, pending, outcome, report, tool_vars>>

(***************************************************************************)
(* FusionAgent.discover_agents, prototype 4: each except clause logs and   *)
(* re-raises, and execute_fusion does not catch.                           *)
(***************************************************************************)
P4_discover_radar_tolerant(resp) ==
    /\ proto = 4
    /\ pc = "discover_radar"
    /\ IF resp # None
       THEN /\ radar_card' = resp
            /\ discovery_log' = discovery_log \cup {"radar_ok"}
       ELSE /\ radar_card' = radar_card
            /\ discovery_log' = discovery_log \cup {"radar_failed"}
    /\ pc' = "discover_visual"
    /\ outcome' = outcome
    /\ discovered' = fetched(discovered, "radar_agent", resp)
    /\ UNCHANGED <<proto, use_discovery, caller, runs, registry, visual_card,
                   radar_call, visual_call, radar_data, visual_data,
                   mcp_client, validation, normalized_target, run_log,
                   mcp_calls, pending, report, tool_vars>>

P4_discover_radar(resp) ==
    /\ proto = 4
    /\ pc = "discover_radar"
    /\ IF resp # None
       THEN /\ radar_card' = resp
            /\ discovery_log' = discovery_log \cup {"radar_ok"}
            /\ pc' = "discover_visual"
            /\ outcome' = outcome
       ELSE /\ radar_card' = radar_card
            /\ discovery_log' = discovery_log \cup {"radar_failed"}
            /\ pc' = "done"
            /\ outcome' = Raised("DiscoveryError", "radar_agent")
    /\ discovered' = fetched(discovered, "radar_agent", resp)
    /\ UNCHANGED <<proto, use_discovery, caller, runs, registry, visual_card,
                   radar_call, visual_call, radar_data, visual_data,
                   mcp_client, validation, normalized_target, run_log,
                   mcp_calls, pending, report, tool_vars>>

P4_discover_visual(resp) ==
    /\ proto = 4
    /\ pc = "discover_visual"
    /\ IF resp # None
       THEN /\ visual_card' = resp
            /\ discovery_log' = discovery_log \cup {"visual_ok"}
            /\ pc' = after_discovery
            /\ outcome' = outcome
       ELSE /\ visual_card' = visual_card
            /\ discovery_log' = discovery_log \cup {"visual_failed"}
            /\ pc' = "done"
            /\ outcome' = Raised("DiscoveryError", "visual_agent")
    /\ discovered' = fetched(discovered, "visual_agent", resp)
    /\ UNCHANGED <<proto, use_discovery, caller, runs, registry, radar_card,
                   radar_call, visual_call, radar_data, visual_data,
                   mcp_client, validation, normalized_target, run_log,
                   mcp_calls, pending, report, tool_vars>>

(***************************************************************************)
(* Dispatch.  Both prototypes await the radar call, deserialize its        *)
(* answer, and only then issue the visual call; nothing catches a failed   *)
(* call or a failed deserialization.                                       *)
(***************************************************************************)
dispatch_error(resp, data) ==
    IF resp.status # "ok" THEN resp.status
    ELSE IF data = None THEN "schema_mismatch"
    ELSE "none"

send_radar_task ==
    /\ pc = "send_radar"
    /\ radar_call' = "inflight"
    /\ pc' = "await_radar"
    /\ UNCHANGED <<proto, use_discovery, caller, runs, discovered, registry,
                   radar_card, visual_card, discovery_log, visual_call,
                   radar_data, visual_data, mcp_client, validation,
                   normalized_target, run_log, mcp_calls, pending, outcome,
                   report, tool_vars>>

query_radar_agent(resp) ==
    /\ pc = "await_radar"
    /\ LET data == IF resp.status = "ok" THEN RadarData(resp.payload) ELSE None
           error == dispatch_error(resp, data)
       IN  IF error = "none"
           THEN /\ radar_call' = "ok"
                /\ radar_data' = data
                /\ pc' = "send_visual"
                /\ outcome' = outcome
           ELSE /\ radar_call' = "failed"
                /\ radar_data' = radar_data
                /\ pc' = "done"
                /\ outcome' = Raised(error, "radar_agent")
    /\ UNCHANGED <<proto, use_discovery, caller, runs, discovered, registry,
                   radar_card, visual_card, discovery_log, visual_call,
                   visual_data, mcp_client, validation, normalized_target,
                   run_log, mcp_calls, pending, report, tool_vars>>

send_visual_task ==
    /\ pc = "send_visual"
    /\ visual_call' = "inflight"
    /\ pc' = "await_visual"
    /\ UNCHANGED <<proto, use_discovery, caller, runs, discovered, registry,
                   radar_card, visual_card, discovery_log, radar_call,
                   radar_data, visual_data, mcp_client, validation,
                   normalized_target, run_log, mcp_calls, pending, outcome,
                   report, tool_vars>>

query_visual_agent(resp) ==
    /\ pc = "await_visual"
    /\ LET data == IF resp.status = "ok" THEN VisualData(resp.payload) ELSE None
           error == dispatch_error(resp, data)
       IN  IF error = "none"
           THEN /\ visual_call' = "ok"
                /\ visual_data' = data
                /\ pc' = "mcp_start"
                /\ outcome' = outcome
           ELSE /\ visual_call' = "failed"
                /\ visual_data' = visual_data
                /\ pc' = "done"
                /\ outcome' = Raised(error, "visual_agent")
    /\ UNCHANGED <<proto, use_discovery, caller, runs, discovered, registry,
                   radar_card, visual_card, discovery_log, radar_call,
                   radar_data, mcp_client, validation, normalized_target,
                   run_log, mcp_calls, pending, report, tool_vars>>

(***************************************************************************)
(* MCPClient.start and MCPClient.stop.  `how` is what the server           *)
(* connection does: for start "ok", "connect_fails" (entering the client   *)
(* context raises) or "initialize_fails"; for stop "ok" or "close_fails".  *)
(***************************************************************************)
start(client, how) ==
    IF client.started THEN client
    ELSE IF how = "connect_fails"
    THEN [client EXCEPT !._exit_stack = TRUE]
    ELSE IF how = "initialize_fails"
    THEN [client EXCEPT !._exit_stack = TRUE, !._client = TRUE,
                        !.connections = @ + 1]
    ELSE [client EXCEPT !._exit_stack = TRUE, !._client = TRUE,
                        !.connections = @ + 1, !.started = TRUE]

start_raises(client, how) == ~client.started /\ how # "ok"

stop(client, how) ==
    IF ~client.started THEN client
    ELSE [client EXCEPT !._exit_stack = FALSE, !._client = FALSE,
                        !.started = FALSE,
                        !.connections =
                            IF client._exit_stack /\ how = "ok"
                            THEN @ - 1 ELSE @]

stop_raises(client, how) ==
    client.started /\ client._exit_stack /\ how # "ok"

tool_guard_client_only(client) == client._client

tool_guard(client) == client.started /\ client._client

(***************************************************************************)
(* execute_fusion, MCP phase: start() outside the try, validate and        *)
(* normalize inside it, stop() in the finally clause.                      *)
(***************************************************************************)
mcp_start(how) ==
    /\ pc = "mcp_start"
    /\ mcp_client' = start(mcp_client, how)
    /\ IF start_raises(mcp_client, how)
       THEN /\ pc' = "done"
            /\ outcome' = Raised("mcp_start", "none")
       ELSE /\ pc' = "validate"
            /\ outcome' = outcome
    /\ UNCHANGED <<proto, use_discovery, caller, runs, discovered, registry,
                   radar_card, visual_card, discovery_log, radar_call,
                   visual_call, radar_data, visual_data, validation,
                   normalized_target, run_log, mcp_calls, pending, report,
                   tool_vars>>

(***************************************************************************)
(* What the orchestrator does with a validation result: prototype 3 prints *)
(* a warning on REJECT, prototype 4 prints nothing; both go on to          *)
(* normalize.                                                              *)
(***************************************************************************)
on_validation_gating(result) ==
    IF result.recommendation = "REJECT"
    THEN [pc |-> "mcp_stop", pending |-> "FusionError",
          run_log |-> {"poor_data_quality"}]
    ELSE [pc |-> "normalize", pending |-> "none", run_log |-> {}]

on_validation_skip_normalize(result) ==
    [pc |-> "mcp_stop",
     pending |-> "none",
     run_log |-> IF proto = 3 /\ result.recommendation = "REJECT"
                 THEN {"poor_data_quality"} ELSE {}]

on_validation(result) ==
    [pc |-> "normalize",
     pending |-> "none",
     run_log |-> IF proto = 3 /\ result.recommendation = "REJECT"
                 THEN {"poor_data_quality"} ELSE {}]

mcp_validate(how) ==
    /\ pc = "validate"
    /\ IF ~tool_guard(mcp_client)
       THEN /\ pending' = "RuntimeError"
            /\ pc' = "mcp_stop"
            /\ UNCHANGED <<validation, run_log, mcp_calls>>
       ELSE /\ mcp_calls' = Append(mcp_calls, "validate_sensor_data")
            /\ IF how = "ok"
               THEN LET result ==
                            validate_sensor_data(
                                radar_data[1].range_meters,
                                radar_data[1].azimuth_degrees,
                                visual_data[1].certainty_percent)
                        then == on_validation(result)
                    IN  /\ validation' = Some(result)
                        /\ run_log' = run_log \cup then.run_log
                        /\ pending' = then.pending
                        /\ pc' = then.pc
               ELSE /\ pending' = "mcp_call"
                    /\ pc' = "mcp_stop"
                    /\ UNCHANGED <<validation, run_log>>
    /\ UNCHANGED <<proto, use_discovery, caller, runs, discovered, registry,
                   radar_card, visual_card, discovery_log, radar_call,
                   visual_call, radar_data, visual_data, mcp_client,
                   normalized_target, outcome, report, tool_vars>>

mcp_normalize(how) ==
    /\ pc = "normalize"
    /\ pc' = "mcp_stop"
    /\ IF ~tool_guard(mcp_client)
       THEN /\ pending' = "RuntimeError"
            /\ UNCHANGED <<normalized_target, mcp_calls>>
       ELSE /\ mcp_calls' = Append(mcp_calls, "normalize_sensor_data")
            /\ IF how = "ok"
               THEN LET data ==
                            normalize_sensor_data(
                                radar_data[1].range_meters,
                                radar_data[1].azimuth_degrees,
                                visual_data[1].classification,
                                visual_data[1].certainty_percent)
                    IN  /\ normalized_target' = NormalizedTarget(data)
                        /\ pending' = IF NormalizedTarget(data) = None
                                      THEN "ValidationError" ELSE "none"
               ELSE /\ pending' = "mcp_call"
                    /\ UNCHANGED normalized_target
    /\ UNCHANGED <<proto, use_discovery, caller, runs, discovered, registry,
                   radar_card, visual_card, discovery_log, radar_call,
                   visual_call, radar_data, visual_data, mcp_client,
                   validation, run_log, outcome, report, tool_vars>>

mcp_stop(how) ==
    /\ pc = "mcp_stop"
    /\ mcp_client' = stop(mcp_client, how)
    /\ IF stop_raises(mcp_client, how)
       THEN /\ pc' = "done"
            /\ outcome' = Raised("mcp_close", "none")
       ELSE IF pending # "none"
       THEN /\ pc' = "done"
            /\ outcome' = Raised(pending, "none")
       ELSE /\ pc' = "report"
            /\ outcome' = outcome
    /\ pending' = "none"
    /\ UNCHANGED <<proto, use_discovery, caller, runs, discovered, registry,
                   radar_card, visual_card, discovery_log, radar_call,
                   visual_call, radar_data, visual_data, validation,
                   normalized_target, run_log, mcp_calls, report, tool_vars>>

(***************************************************************************)
(* execute_fusion, report: prototype 3 builds an A2AArtifact without a     *)
(* quality score, prototype 4 a FusionReport that takes it from the        *)
(* validation.                                                             *)
(***************************************************************************)
build_report ==
    /\ pc = "report"
    /\ report' =
           Some([fusion_id |-> runs,
                 targets |-> <<normalized_target[1]>>,
                 quality_score |->
                     IF proto = 4 THEN Some(validation[1].quality_score)
                     ELSE None])
    /\ outcome' = [kind |-> "report", error |-> "none", agent |-> "none"]
    /\ pc' = "done"
    /\ UNCHANGED <<proto, use_discovery, caller, runs, discovered, registry,
                   radar_card, visual_card, discovery_log, radar_call,
                   visual_call, radar_data, visual_data, mcp_client,
                   validation, normalized_target, run_log, mcp_calls, pending,
                   tool_vars>>

Init ==
    /\ FusionInit
    /\ tool_request = NoRequest
    /\ tool_response = None
    /\ tool_history = <<>>
    /\ client_log = <<>>
    /\ executor = NoExecution
    /\ event_queue = <<>>
    /\ executions = 0

Next ==
    \/ execute_fusion
    \/ discover_agents
    \/ \E resp \in CardResponses(RadarCards) : P3_discover_radar(resp)
    \/ \E resp \in CardResponses(VisualCards) : P3_discover_visual(resp)
    \/ \E resp \in CardResponses(RadarCards) : P4_discover_radar(resp)
    \/ \E resp \in CardResponses(VisualCards) : P4_discover_visual(resp)
    \/ send_radar_task
    \/ \E resp \in TaskResponses(RadarPayloads) : query_radar_agent(resp)
    \/ send_visual_task
    \/ \E resp \in TaskResponses(VisualPayloads) : query_visual_agent(resp)
    \/ \E how \in {"ok", "connect_fails", "initialize_fails"} : mcp_start(how)
    \/ \E how \in {"ok", "call_fails"} : mcp_validate(how)
    \/ \E how \in {"ok", "call_fails"} : mcp_normalize(how)
    \/ \E how \in {"ok", "close_fails"} : mcp_stop(how)
    \/ build_report

Spec == Init /\ [][Next]_vars

(***************************************************************************)
(* The MCP server called directly: a client may call either tool with any  *)
(* arguments of the declared types.  The request is drawn when the call is *)
(* made; the server answers it with the tool's return value.               *)
(***************************************************************************)
ValidateRequests ==
    [tool : {"validate_sensor_data"}, radar_range_meters : RangeInputs,
     radar_azimuth_degrees : AzimuthInputs, visual_classification : {"none"},
     visual_certainty_percent : CertaintyInputs]

NormalizeRequests ==
    [tool : {"normalize_sensor_data"}, radar_range_meters : RangeInputs,
     radar_azimuth_degrees : TrigAzimuths,
     visual_classification : Classifications,
     visual_certainty_percent : CertaintyInputs]

ServeValidate ==
    /\ tool_request.tool = "validate_sensor_data"
    /\ tool_response = None
    /\ tool_response' =
           Some(validate_sensor_data(tool_request.radar_range_meters,
                                     tool_request.radar_azimuth_degrees,
                                     tool_request.visual_certainty_percent))
    /\ UNCHANGED <<tool_request, tool_history, client_log, exec_vars,
                   fusion_vars>>

ServeNormalize ==
    /\ tool_request.tool = "normalize_sensor_data"
    /\ tool_response = None
    /\ tool_response' =
           Some(normalize_sensor_data(tool_request.radar_range_meters,
                                      tool_request.radar_azimuth_degrees,
                                      tool_request.visual_classification,
                                      tool_request.visual_certainty_percent))
    /\ UNCHANGED <<tool_request, tool_history, client_log, exec_vars,
                   fusion_vars>>

ToolInit ==
    /\ FusionInit
    /\ proto = 3
    /\ use_discovery = TRUE
    /\ tool_request \in ValidateRequests \cup NormalizeRequests
    /\ tool_response = None
    /\ tool_history = <<>>
    /\ client_log = <<>>
    /\ executor = NoExecution
    /\ event_queue = <<>>
    /\ executions = 0

ToolNext ==
    \/ ServeValidate
    \/ ServeNormalize

ToolSpec == ToolInit /\ [][ToolNext]_vars

(***************************************************************************)
(* The two normalizers side by side: the MCP server tool answers the       *)
(* request, and prototype 2's FusionAgent normalizes the same radar and    *)
(* visual reading in process.  The readings are RadarData and VisualData   *)
(* objects, so the certainty is a whole number in 0..100.                  *)
(***************************************************************************)
P2_normalize ==
    /\ tool_request.tool = "normalize_sensor_data"
    /\ normalized_target = None
    /\ normalized_target' =
           Some(data_normalization_tool(tool_request.radar_range_meters,
                                        tool_request.radar_azimuth_degrees,
                                        tool_request.visual_classification,
                                        tool_request.visual_certainty_percent))
    /\ UNCHANGED <<proto, use_discovery, caller, runs, discovered, pc,
                   registry, radar_card, visual_card, discovery_log,
                   radar_call, visual_call, radar_data, visual_data,
                   mcp_client, validation, run_log, mcp_calls, pending,
                   outcome, report, tool_vars>>

EquivInit ==
    /\ ToolInit
    /\ tool_request \in NormalizeRequests
    /\ tool_request.visual_certainty_percent \in 0 .. 100

EquivNext ==
    \/ ServeNormalize
    \/ P2_normalize

EquivSpec == EquivInit /\ [][EquivNext]_vars

(***************************************************************************)
(* A client session on the MCP server: up to MaxCalls tool calls, one      *)
(* after the other, each answered with the tool's return value.            *)
(***************************************************************************)
SessionRequests ==
    [tool : {"normalize_sensor_data"}, radar_range_meters : {-1, 1000},
     radar_azimuth_degrees : {90, 389},
     visual_classification : {"drone", "vessel"},
     visual_certainty_percent : {40, 80}]
        \cup [tool : {"validate_sensor_data"}, radar_range_meters : {-1, 1000},
              radar_azimuth_degrees : {90, 389},
              visual_classification : {"none"},
              visual_certainty_percent : {40, 80}]

call_tool_validate(req) ==
    /\ req.tool = "validate_sensor_data"
    /\ Len(tool_history) < MaxCalls
    /\ LET result == validate_sensor_data(req.radar_range_meters,
                                          req.radar_azimuth_degrees,
                                          req.visual_certainty_percent)
       IN  /\ tool_request' = req
           /\ tool_response' = Some(result)
           /\ tool_history' =
                  Append(tool_history, [request |-> req, response |-> result])
    /\ UNCHANGED <<client_log, exec_vars, fusion_vars>>

call_tool_normalize(req) ==
    /\ req.tool = "normalize_sensor_data"
    /\ Len(tool_history) < MaxCalls
    /\ LET result == normalize_sensor_data(req.radar_range_meters,
                                           req.radar_azimuth_degrees,
                                           req.visual_classification,
                                           req.visual_certainty_percent)
       IN  /\ tool_request' = req
           /\ tool_response' = Some(result)
           /\ tool_history' =
                  Append(tool_history, [request |-> req, response |-> result])
    /\ UNCHANGED <<client_log, exec_vars, fusion_vars>>

SessionNext ==
    \/ \E req \in SessionRequests : call_tool_validate(req)
    \/ \E req \in SessionRequests : call_tool_normalize(req)

SessionInit ==
    /\ Init
    /\ proto = 3
    /\ use_discovery = TRUE

SessionSpec == SessionInit /\ [][SessionNext]_vars

(***************************************************************************)
(* An MCPClient driven directly: up to MaxOps calls of start, stop and the *)
(* two tool methods, in any order.  A tool method that passes the guard    *)
(* sends the call to the server (mcp_calls) and returns its answer, or     *)
(* raises what the call raised.                                            *)
(***************************************************************************)
ClientReadings ==
    {[range_meters |-> 1000, azimuth_degrees |-> 90,
      classification |-> "drone", certainty_percent |-> 80],
     [range_meters |-> -1, azimuth_degrees |-> 389,
      classification |-> "vessel", certainty_percent |-> 40]}

Logged(op, raised) == Append(client_log, [op |-> op, raised |-> raised])

client_start(how) ==
    /\ Len(client_log) < MaxOps
    /\ mcp_client' = start(mcp_client, how)
    /\ client_log' =
           Logged("start",
                  IF start_raises(mcp_client, how) THEN how ELSE "none")
    /\ UNCHANGED <<proto, use_discovery, caller, runs, discovered, pc,
                   registry, radar_card, visual_card, discovery_log,
                   radar_call, visual_call, radar_data, visual_data,
                   validation, normalized_target, run_log, mcp_calls,
                   pending, outcome, report, tool_request, tool_response,
                   tool_history, exec_vars>>

client_stop(how) ==
    /\ Len(client_log) < MaxOps
    /\ mcp_client' = stop(mcp_client, how)
    /\ client_log' =
           Logged("stop", IF stop_raises(mcp_client, how) THEN how ELSE "none")
    /\ UNCHANGED <<proto, use_discovery, caller, runs, discovered, pc,
                   registry, radar_card, visual_card, discovery_log,
                   radar_call, visual_call, radar_data, visual_data,
                   validation, normalized_target, run_log, mcp_calls,
                   pending, outcome, report, tool_request, tool_response,
                   tool_history, exec_vars>>

client_validate(reading, how) ==
    /\ Len(client_log) < MaxOps
    /\ IF ~tool_guard(mcp_client)
       THEN /\ client_log' = Logged("validate_sensor_data", "RuntimeError")
            /\ UNCHANGED <<mcp_calls, tool_response>>
       ELSE /\ mcp_calls' = Append(mcp_calls, "validate_sensor_data")
            /\ IF how = "ok"
               THEN /\ tool_response' =
                           Some(validate_sensor_data(
                                    reading.range_meters,
                                    reading.azimuth_degrees,
                                    reading.certainty_percent))
                    /\ client_log' = Logged("validate_sensor_data", "none")
               ELSE /\ tool_response' = tool_response
                    /\ client_log' = Logged("validate_sensor_data", "mcp_call")
    /\ UNCHANGED <<proto, use_discovery, caller, runs, discovered, pc,
                   registry, radar_card, visual_card, discovery_log,
                   radar_call, visual_call, radar_data, visual_data,
                   mcp_client, validation, normalized_target, run_log,
                   pending, outcome, report, tool_request, tool_history,
                   exec_vars>>

client_normalize(reading, how) ==
    /\ Len(client_log) < MaxOps
    /\ IF ~tool_guard(mcp_client)
       THEN /\ client_log' = Logged("normalize_sensor_data", "RuntimeError")
            /\ UNCHANGED <<mcp_calls, tool_response>>
       ELSE /\ mcp_calls' = Append(mcp_calls, "normalize_sensor_data")
            /\ IF how = "ok"
               THEN LET data == normalize_sensor_data(
                                    reading.range_meters,
                                    reading.azimuth_degrees,
                                    reading.classification,
                                    reading.certainty_percent)
                    IN  /\ tool_response' = NormalizedTarget(data)
                        /\ client_log' =
                               Logged("normalize_sensor_data",
                                      IF NormalizedTarget(data) = None
                                      THEN "ValidationError" ELSE "none")
               ELSE /\ tool_response' = tool_response
                    /\ client_log' = Logged("normalize_sensor_data", "mcp_call")
    /\ UNCHANGED <<proto, use_discovery, caller, runs, discovered, pc,
                   registry, radar_card, visual_card, discovery_log,
                   radar_call, visual_call, radar_data, visual_data,
                   mcp_client, validation, normalized_target, run_log,
                   pending, outcome, report, tool_request, tool_history,
                   exec_vars>>

ClientNext ==
    \/ \E how \in {"ok", "connect_fails", "initialize_fails"} :
           client_start(how)
    \/ \E how \in {"ok", "close_fails"} : client_stop(how)
    \/ \E reading \in ClientReadings, how \in {"ok", "call_fails"} :
           client_validate(reading, how)
    \/ \E reading \in ClientReadings, how \in {"ok", "call_fails"} :
           client_normalize(reading, how)

ClientInit ==
    /\ Init
    /\ proto = 3
    /\ use_discovery = TRUE

ClientSpec == ClientInit /\ [][ClientNext]_vars

(***************************************************************************)
(* The agent executors of prototype 4: RadarAgentExecutor.execute and      *)
(* VisualAgentExecutor.execute, step by step.  The request is a task in    *)
(* JSON, a text that is not a task (the sector falls back to the default), *)
(* or a message without parts (extracting the text raises).  An            *)
(* enqueue_event either enqueues the event or raises without enqueueing.   *)
(***************************************************************************)
ExecutorRequests == {"task_json", "plain_text", "no_parts"}

SensorReadings(agent) ==
    IF agent = "radar_agent"
    THEN [range_meters : {500, 3000}, azimuth_degrees : {0, 90, 360}]
    ELSE [classification : Classifications, certainty_percent : {60, 99}]

new_agent_text_message(kind, body) == [kind |-> kind, body |-> body]

execute(agent, request) ==
    /\ executor.pc \in {"idle", "returned", "raised"}
    /\ executions < MaxExecutions
    /\ executions' = executions + 1
    /\ event_queue' = <<>>
    /\ executor' =
           IF request = "no_parts"
           THEN [NoExecution EXCEPT !.agent = agent, !.pc = "except"]
           ELSE [NoExecution EXCEPT
                     !.agent = agent, !.pc = "progress",
                     !.sector_id = IF request = "task_json" THEN "Bravo Sector"
                                   ELSE "Alpha Sector"]
    /\ UNCHANGED <<fusion_vars, tool_request, tool_response, tool_history,
                   client_log>>

enqueue_progress_skipped(ok) ==
    /\ executor.pc = "progress"
    /\ event_queue' = event_queue
    /\ executor' = [executor EXCEPT !.pc = "scan"]
    /\ UNCHANGED <<fusion_vars, tool_request, tool_response, tool_history,
                   client_log, executions>>

enqueue_progress(ok) ==
    /\ executor.pc = "progress"
    /\ IF ok
       THEN /\ event_queue' =
                   Append(event_queue,
                          new_agent_text_message("progress", "initiating"))
            /\ executor' = [executor EXCEPT !.pc = "scan"]
       ELSE /\ event_queue' = event_queue
            /\ executor' = [executor EXCEPT !.pc = "except",
                                            !.enqueue_failed = TRUE]
    /\ UNCHANGED <<fusion_vars, tool_request, tool_response, tool_history,
                   client_log, executions>>

scan_sector(reading) ==
    /\ executor.pc = "scan"
    /\ reading \in SensorReadings(executor.agent)
    /\ executor' = [executor EXCEPT !.pc = "result", !.reading = Some(reading)]
    /\ UNCHANGED <<fusion_vars, tool_request, tool_response, tool_history,
                   client_log, event_queue, executions>>

enqueue_result(ok) ==
    /\ executor.pc = "result"
    /\ IF ok
       THEN /\ event_queue' =
                   Append(event_queue,
                          new_agent_text_message("result",
                                                 executor.reading[1]))
            /\ executor' = [executor EXCEPT !.pc = "returned"]
       ELSE /\ event_queue' = event_queue
            /\ executor' = [executor EXCEPT !.pc = "except",
                                            !.enqueue_failed = TRUE]
    /\ UNCHANGED <<fusion_vars, tool_request, tool_response, tool_history,
                   client_log, executions>>

on_exception(ok) ==
    /\ executor.pc = "except"
    /\ IF ok
       THEN /\ event_queue' =
                   Append(event_queue,
                          new_agent_text_message("error", "exception text"))
            /\ executor' = [executor EXCEPT !.pc = "returned"]
       ELSE /\ event_queue' = event_queue
            /\ executor' = [executor EXCEPT !.pc = "raised",
                                            !.enqueue_failed = TRUE]
    /\ UNCHANGED <<fusion_vars, tool_request, tool_response, tool_history,
                   client_log, executions>>

ExecutorNext ==
    \/ \E agent \in {"radar_agent", "visual_agent"},
          request \in ExecutorRequests : execute(agent, request)
    \/ \E ok \in BOOLEAN : enqueue_progress(ok)
    \/ \E reading \in SensorReadings("radar_agent")
                          \cup SensorReadings("visual_agent") :
           scan_sector(reading)
    \/ \E ok \in BOOLEAN : enqueue_result(ok)
    \/ \E ok \in BOOLEAN : on_exception(ok)

ExecutorInit ==
    /\ Init
    /\ proto = 4

ExecutorSpec == ExecutorInit /\ [][ExecutorNext]_vars

Validated ==
    tool_request.tool = "validate_sensor_data" /\ tool_response # None
Normalized ==
    tool_request.tool = "normalize_sensor_data" /\ tool_response # None
Req == tool_request
Resp == tool_response[1]

Elems(seq) == {seq[i] : i \in DOMAIN seq}

(***************************************************************************)
(* Dispatch and discovery.                                                 *)
(***************************************************************************)

\* C1: dispatch fault isolation.  In a finished run in which exactly one of
\* the two agent calls failed (timeout, connection failure or malformed
\* payload), the run was not aborted, the other agent's reading was
\* obtained, and only the failing agent is reported as failed.
C1_FaultIsolation ==
    (pc = "done" /\ (radar_call = "failed") # (visual_call = "failed")) =>
        /\ outcome.kind # "raised"
        /\ radar_call = "failed" => visual_data # None
        /\ visual_call = "failed" => radar_data # None

\* C2: discovery tolerates individual failures.  Once a run is past the
\* radar fetch, a failed radar fetch has been followed by the visual fetch;
\* no run ends with a discovery error; every agent whose fetch succeeded is
\* registered.
Registered(agent_id) ==
    IF proto = 3 THEN agent_id \in DOMAIN registry
    ELSE IF agent_id = "radar_agent" THEN radar_card # None
    ELSE visual_card # None

C2_DiscoveryTolerant ==
    /\ ("radar_failed" \in discovery_log /\ pc # "discover_visual") =>
           {"visual_ok", "visual_failed"} \cap discovery_log # {}
    /\ outcome.error # "DiscoveryError"
    /\ "radar_ok" \in discovery_log => Registered("radar_agent")
    /\ "visual_ok" \in discovery_log => Registered("visual_agent")

\* C3: concurrent dispatch.  The visual request does not wait for the radar
\* response: by the time the radar call has completed (or failed) the
\* visual request has been issued; and validation starts only after both
\* calls have completed.
C3_ConcurrentDispatch ==
    /\ radar_call \in {"ok", "failed"} => visual_call # "idle"
    /\ pc \in {"mcp_start", "validate", "normalize", "mcp_stop", "report"} =>
           (radar_call = "ok" /\ visual_call = "ok")

(***************************************************************************)
(* The validator.                                                          *)
(***************************************************************************)
Deduction(range, azimuth, certainty) ==
    (IF range < 0 THEN 50 ELSE IF range > 10000 THEN 10 ELSE 0)
        + (IF azimuth < 0 \/ azimuth > 360 THEN 30 ELSE 0)
        + (IF certainty < 50 THEN 20 ELSE IF certainty < 70 THEN 10 ELSE 0)

\* C4: for every (range, azimuth, certainty) validate returns
\* quality_score = max(0, 100 - D), D the sum of the applicable deductions.
C4_QualityScore ==
    Validated =>
        Resp.quality_score =
            Max(0, 100 - Deduction(Req.radar_range_meters,
                                   Req.radar_azimuth_degrees,
                                   Req.visual_certainty_percent))

C4_Witness ==
    /\ Validated
    /\ Req.radar_range_meters = 500
    /\ Req.radar_azimuth_degrees = 400
    /\ Req.visual_certainty_percent = 40
    /\ Resp.quality_score = 50

\* C5: the recommendation is determined by the returned quality score
\* alone: ACCEPT above 70, REVIEW above 30 up to 70, REJECT at 30 or below.
C5_Recommendation ==
    Validated =>
        Resp.recommendation =
            (IF Resp.quality_score > 70 THEN "ACCEPT"
             ELSE IF Resp.quality_score > 30 THEN "REVIEW"
             ELSE "REJECT")

C5_Witness ==
    /\ Validated
    /\ Resp.quality_score = 70
    /\ Resp.recommendation = "REVIEW"

\* C6: is_valid is false if and only if the recommendation is REJECT.
C6_IsValid ==
    Validated => (Resp.is_valid = FALSE <=> Resp.recommendation = "REJECT")

C6_Witness ==
    /\ Validated
    /\ ~Resp.is_valid
    /\ Resp.recommendation = "REJECT"
    /\ Resp.quality_score = 30

\* C7: the validator is advisory.  Once validation has returned, the
\* normalize tool is called whatever the recommendation; a run that got a
\* validation result ends without a report only when an MCP call or the
\* MCP shutdown itself failed; a REJECT leaves at most a log line.
C7_Advisory ==
    /\ (validation # None /\ pc \in {"mcp_stop", "report", "done"}) =>
           "normalize_sensor_data" \in Elems(mcp_calls)
    /\ (validation # None /\ pc = "done") =>
           \/ outcome.kind = "report" /\ report # None
           \/ outcome.kind = "raised"
                /\ outcome.error \in {"mcp_call", "mcp_close"}
    /\ run_log # {} =>
           (validation # None /\ validation[1].recommendation = "REJECT")

C7_Witness ==
    /\ pc = "done"
    /\ validation # None
    /\ validation[1].recommendation = "REJECT"
    /\ "normalize_sensor_data" \in Elems(mcp_calls)
    /\ outcome.kind = "report"

C9_Confidence ==
    (Normalized /\ Req.visual_certainty_percent \in 0 .. 100) =>
        Resp.confidence = Req.visual_certainty_percent

C9_Witness ==
    /\ Normalized
    /\ Req.visual_certainty_percent = 37
    /\ Req.radar_range_meters = 12000
    /\ Req.visual_classification = "vessel"
    /\ Resp.confidence = 37

\* C10: the confidence normalize returns is certainty/100 clamped to [0,1],
\* and building the NormalizedTarget from it raises no error, also for a
\* certainty below 0 or above 100.
Clamp(certainty) ==
    IF certainty < 0 THEN 0 ELSE IF certainty > 100 THEN 100 ELSE certainty

C10_ConfidenceClamped ==
    Normalized =>
        /\ Resp.confidence = Clamp(Req.visual_certainty_percent)
        /\ NormalizedTarget(Resp) # None

\* C11: for every classification label of {drone, aircraft, vessel,
\* unknown} normalize returns target_type equal to the label in upper
\* case, whatever the radar reading and the certainty.
C11_TargetType ==
    Normalized =>
        /\ Req.visual_classification = "drone" => Resp.target_type = "DRONE"
        /\ Req.visual_classification = "aircraft" =>
               Resp.target_type = "AIRCRAFT"
        /\ Req.visual_classification = "vessel" => Resp.target_type = "VESSEL"
        /\ Req.visual_classification = "unknown" =>
               Resp.target_type = "UNKNOWN"

C11_Witness ==
    /\ Normalized
    /\ Req.visual_classification = "aircraft"
    /\ Req.radar_range_meters = -1
    /\ Req.visual_certainty_percent = 150
    /\ Resp.target_type = "AIRCRAFT"

EndToEndRun ==
    /\ pc = "done"
    /\ outcome.kind = "report"
    /\ radar_data = Some([range_meters |-> 1000, azimuth_degrees |-> 90])
    /\ visual_data =
           Some([classification |-> "drone", certainty_percent |-> 80])

C13_EndToEnd ==
    EndToEndRun =>
        /\ Len(report[1].targets) = 1
        /\ report[1].targets[1].x_pos = 0
        /\ report[1].targets[1].y_pos = 100000
        /\ report[1].targets[1].target_type = "DRONE"
        /\ report[1].targets[1].confidence = 80
        /\ validation[1].quality_score = 100
        /\ validation[1].recommendation = "ACCEPT"
        /\ proto = 4 => report[1].quality_score = Some(100)

C13_Witness ==
    /\ EndToEndRun
    /\ proto = 4
    /\ report[1].targets[1].y_pos = 100000
    /\ report[1].quality_score = Some(100)


(***************************************************************************)
(* C14: re-discovery is idempotent.  After any sequence of discovery runs  *)
(* the registry holds one card per agent-id, an agent-id is registered     *)
(* exactly when one of its discoveries succeeded, and its entry is the     *)
(* card of the most recent successful discovery.  Prototype 4 keeps the    *)
(* two cards in attributes instead of a registry; the same holds of them.  *)
(***************************************************************************)
Last(seq) == seq[Len(seq)]

C14_Rediscovery ==
    /\ proto = 3 =>
           /\ DOMAIN registry = DOMAIN discovered
           /\ \A a \in DOMAIN registry :
                  /\ registry[a] \in RadarCards \cup VisualCards
                  /\ registry[a] = Last(discovered[a])
    /\ proto = 4 =>
           /\ radar_card # None <=> "radar_agent" \in DOMAIN discovered
           /\ radar_card # None =>
                  radar_card[1] = Last(discovered["radar_agent"])
           /\ visual_card # None <=> "visual_agent" \in DOMAIN discovered
           /\ visual_card # None =>
                  visual_card[1] = Last(discovered["visual_agent"])

C14_Witness ==
    /\ proto = 3
    /\ "radar_agent" \in DOMAIN discovered
    /\ Len(discovered["radar_agent"]) = 2
    /\ discovered["radar_agent"][1] # discovered["radar_agent"][2]
    /\ registry["radar_agent"] = discovered["radar_agent"][2]
    /\ Cardinality(DOMAIN registry) = 2

(***************************************************************************)
(* C15: after every discovery run of prototype 3, the warning for a        *)
(* required skill is surfaced if and only if no registered agent declares  *)
(* that skill id, whichever agents are registered; and discovery never     *)
(* fails the run: it goes on with the agents that were registered.         *)
(***************************************************************************)
DiscoveryFinished == {"visual_ok", "visual_failed"} \cap discovery_log # {}

Declares(skill_id) == \E a \in DOMAIN registry : skill_id \in registry[a].skills

C15_SkillWarnings ==
    proto = 3 =>
        /\ DiscoveryFinished =>
               /\ "no_radar_detection" \in discovery_log
                      <=> ~Declares("radar_detection")
               /\ "no_visual_classification" \in discovery_log
                      <=> ~Declares("visual_classification")
               /\ pc # "done" \/ caller = "discover_agents"
                      \/ outcome.kind # "none"
        /\ outcome.error # "DiscoveryError"
        /\ (pc = "send_radar" /\ caller = "execute_fusion"
               /\ discovery_log # {}) => DiscoveryFinished

C15_Witness ==
    /\ proto = 3
    /\ caller = "execute_fusion"
    /\ pc = "send_radar"
    /\ "radar_ok" \in discovery_log
    /\ "visual_failed" \in discovery_log
    /\ "radar_agent" \in DOMAIN registry
    /\ registry["radar_agent"].skills = {}
    /\ discovery_log \cap {"no_radar_detection", "no_visual_classification"}
           = {"no_radar_detection", "no_visual_classification"}

(***************************************************************************)
(* C16: a fusion run in which no radar provider or no visual provider was  *)
(* discovered or answered ends with the error "insufficient sensor         *)
(* coverage": it returns no report and raises nothing else.                *)
(***************************************************************************)
NoProvider ==
    \/ {"radar_failed", "visual_failed"} \cap discovery_log # {}
    \/ radar_call = "failed"
    \/ visual_call = "failed"

C16_InsufficientCoverage ==
    (caller = "execute_fusion" /\ pc = "done" /\ NoProvider) =>
        /\ outcome.kind = "raised"
        /\ outcome.error = "insufficient sensor coverage"

(***************************************************************************)
(* C17: in every fusion run that returns a report, the report's            *)
(* quality_score is the quality_score that validate_sensor_data returned   *)
(* for that run's readings.                                                *)
(***************************************************************************)
C17_QualityCarried ==
    outcome.kind = "report" =>
        /\ validation # None
        /\ report[1].quality_score = Some(validation[1].quality_score)

(***************************************************************************)
(* C18: every fusion run ends in a report or an explicit failure result    *)
(* (never in a bare exception), and the report states the agents that      *)
(* contributed a reading: the others are the ones that did not.            *)
(***************************************************************************)
Contributed ==
    {a \in {"radar_agent", "visual_agent"} :
        IF a = "radar_agent" THEN radar_call = "ok" ELSE visual_call = "ok"}

C18_Contributors ==
    (caller = "execute_fusion" /\ pc = "done") =>
        /\ outcome.kind # "raised"
        /\ outcome.kind = "report" =>
               \A i \in 1 .. Len(report[1].targets) :
                   Elems(report[1].targets[i].source_sensors) = Contributed

(***************************************************************************)
(* C19: an agent response that cannot be deserialized into RadarData or    *)
(* VisualData is recorded as a DispatchError value for that agent and      *)
(* raises nothing out of the fusion run.                                   *)
(***************************************************************************)
C19_SchemaMismatch ==
    outcome.error = "schema_mismatch" =>
        /\ outcome.kind = "dispatch_error"
        /\ outcome.kind # "raised"

(***************************************************************************)
(* C20: pipeline ordering.  While a run discovers, no agent has been       *)
(* queried and no tool called; an agent is queried only once the run's     *)
(* discovery has finished; the tools are called after both readings are    *)
(* in, validate_sensor_data first and normalize_sensor_data second; the    *)
(* report is built only after both have returned.                          *)
(***************************************************************************)
Queried == radar_call # "idle" \/ visual_call # "idle"

IsPrefix(s, t) == Len(s) <= Len(t) /\ \A i \in 1 .. Len(s) : s[i] = t[i]

C20_Ordering ==
    /\ pc \in {"discover_radar", "discover_visual"} =>
           /\ ~Queried
           /\ mcp_calls = <<>>
           /\ validation = None /\ normalized_target = None /\ report = None
    /\ Queried =>
           /\ proto = 4 => {"radar_ok", "visual_ok"} \subseteq discovery_log
           /\ discovery_log # {} => DiscoveryFinished
           /\ (proto = 3 /\ use_discovery /\ DOMAIN registry = {}) =>
                  DiscoveryFinished
    /\ IsPrefix(mcp_calls, <<"validate_sensor_data", "normalize_sensor_data">>)
    /\ mcp_calls # <<>> => radar_data # None /\ visual_data # None
    /\ validation # None => mcp_calls # <<>>
    /\ normalized_target # None => validation # None /\ Len(mcp_calls) = 2
    /\ (pc = "report" \/ report # None) =>
           validation # None /\ normalized_target # None

C20_Witness ==
    /\ pc = "done"
    /\ outcome.kind = "report"
    /\ DiscoveryFinished
    /\ mcp_calls = <<"validate_sensor_data", "normalize_sensor_data">>
    /\ report # None

(***************************************************************************)
(* C21: validator boundary values.  Range 0 and range 10000, azimuth 0     *)
(* and azimuth 360, and certainty 70 each bring no warning and leave the   *)
(* score what the other two inputs make it; certainty 50 brings the        *)
(* moderate-confidence warning and its deduction of 10, not the            *)
(* low-confidence one of 20.                                               *)
(***************************************************************************)
ScoreOf(range, azimuth, certainty) ==
    Max(0, 100 - Deduction(range, azimuth, certainty))

C21_Boundaries ==
    Validated =>
        LET r == Req.radar_range_meters
            a == Req.radar_azimuth_degrees
            c == Req.visual_certainty_percent
            w == Elems(Resp.warnings)
        IN  /\ r \in {0, 10000} =>
                   /\ w \cap {WarnNegativeRange, WarnRangeLimit} = {}
                   /\ Resp.quality_score = ScoreOf(500, a, c)
            /\ a \in {0, 360} =>
                   /\ WarnAzimuth \notin w
                   /\ Resp.quality_score = ScoreOf(r, 90, c)
            /\ c = 70 =>
                   /\ w \cap {WarnLowCertainty, WarnModerateCertainty} = {}
                   /\ Resp.quality_score = ScoreOf(r, a, 100)
            /\ c = 50 =>
                   /\ WarnModerateCertainty \in w
                   /\ WarnLowCertainty \notin w
                   /\ r \in {0, 10000} /\ a \in {0, 360} =>
                          Resp.quality_score = 90
            /\ (r \in {0, 10000} /\ a \in {0, 360} /\ c = 70) =>
                   Resp.quality_score = 100 /\ Resp.warnings = <<>>

C21_Witness ==
    /\ Validated
    /\ Req.radar_range_meters = 10000
    /\ Req.radar_azimuth_degrees = 360
    /\ Req.visual_certainty_percent = 50
    /\ Resp.quality_score = 90
    /\ Resp.warnings = <<WarnModerateCertainty>>

(***************************************************************************)
(* C22: the tool methods are guarded by the lifecycle.  A call of          *)
(* normalize_sensor_data or validate_sensor_data on a client that is not   *)
(* started (never started, stopped, or whose start failed) raises          *)
(* RuntimeError, sends nothing to the server and leaves the client as it   *)
(* was.                                                                    *)
(***************************************************************************)
ToolMethods == {"validate_sensor_data", "normalize_sensor_data"}

ToolMethodCalled ==
    /\ Len(client_log') = Len(client_log) + 1
    /\ Last(client_log').op \in ToolMethods

C22_LifecycleGuard ==
    [][(ToolMethodCalled /\ ~mcp_client.started) =>
           /\ Last(client_log').raised = "RuntimeError"
           /\ mcp_calls' = mcp_calls
           /\ mcp_client' = mcp_client
           /\ tool_response' = tool_response]_vars

C22_Witness ==
    /\ Len(client_log) = 4
    /\ client_log[1] =
           [op |-> "validate_sensor_data", raised |-> "RuntimeError"]
    /\ client_log[2] = [op |-> "start", raised |-> "none"]
    /\ client_log[3] = [op |-> "stop", raised |-> "none"]
    /\ client_log[4] =
           [op |-> "normalize_sensor_data", raised |-> "RuntimeError"]
    /\ mcp_calls = <<>>
    /\ mcp_client = MCPClientInit

(***************************************************************************)
(* C23: start and stop are idempotent.  start() on a started client and    *)
(* stop() on a client that is not started change nothing; and after any    *)
(* sequence of start and stop calls at most one server connection is open. *)
(***************************************************************************)
Called(op) ==
    /\ Len(client_log') = Len(client_log) + 1
    /\ Last(client_log').op = op

C23_Idempotent ==
    /\ [][/\ (Called("start") /\ mcp_client.started) =>
                 mcp_client' = mcp_client /\ Last(client_log').raised = "none"
          /\ (Called("stop") /\ ~mcp_client.started) =>
                 mcp_client' = mcp_client /\ Last(client_log').raised = "none"
         ]_vars
    /\ [](mcp_client.connections <= 1)

(***************************************************************************)
(* C24: a start() that succeeded inside execute_fusion is always followed  *)
(* by stop() before execute_fusion returns or raises, so that whenever     *)
(* execute_fusion is not running the MCP client is not started and holds   *)
(* no open connection.                                                     *)
(***************************************************************************)
NotRunning == pc \in {"idle", "done"}

C24_StoppedWhenIdle ==
    /\ mcp_client.started => pc \in {"validate", "normalize", "mcp_stop"}
    /\ NotRunning => ~mcp_client.started /\ mcp_client.connections = 0

(***************************************************************************)
(* C25: MCPClient state consistency.  Between calls, started is true       *)
(* exactly when both _client and _exit_stack are set, and a client that    *)
(* is not started holds no exit stack, no client and no open connection:   *)
(* also after a start() that failed and after a stop() whose close raised. *)
(***************************************************************************)
C25_Consistent ==
    /\ mcp_client.started <=> (mcp_client._client /\ mcp_client._exit_stack)
    /\ ~mcp_client.started =>
           /\ ~mcp_client._client
           /\ ~mcp_client._exit_stack
           /\ mcp_client.connections = 0

(***************************************************************************)
(* C26: in prototype 3 execute_fusion runs discovery exactly when          *)
(* use_discovery is set and the registry is empty at the start of the run. *)
(* A run that discovers started from an empty registry, so every agent     *)
(* registered during it was fetched in it; a run that does not discover    *)
(* has use_discovery off or found an agent registered, and then an agent   *)
(* whose discovery failed earlier is not fetched again.                    *)
(***************************************************************************)
FusionRunning3 == proto = 3 /\ caller = "execute_fusion" /\ pc # "idle"

FetchedNow(agent_id) ==
    IF agent_id = "radar_agent" THEN "radar_ok" \in discovery_log
    ELSE "visual_ok" \in discovery_log

C26_DiscoveryGate ==
    FusionRunning3 =>
        /\ discovery_log # {} =>
               /\ use_discovery
               /\ \A a \in DOMAIN registry : FetchedNow(a)
        /\ discovery_log = {} =>
               /\ pc \notin {"discover_visual"}
               /\ pc = "discover_radar" =>
                      use_discovery /\ DOMAIN registry = {}
               /\ pc # "discover_radar" =>
                      ~use_discovery \/ DOMAIN registry # {}

C26_Witness ==
    /\ FusionRunning3
    /\ use_discovery
    /\ runs = 2
    /\ DOMAIN registry = {"radar_agent"}
    /\ discovery_log = {}
    /\ radar_call = "ok"
    /\ visual_call = "ok"

(***************************************************************************)
(* C27: in prototype 4 an agent is queried only in a run that obtained     *)
(* both cards.  A failed card fetch ends the run with the discovery        *)
(* exception before any task is sent, and after a failed radar fetch the   *)
(* visual card is not fetched at all.                                      *)
(***************************************************************************)
C27_BothCards ==
    proto = 4 =>
        /\ (Queried \/ mcp_calls # <<>> \/ report # None) =>
               /\ discovery_log = {"radar_ok", "visual_ok"}
               /\ radar_card # None /\ visual_card # None
        /\ "radar_failed" \in discovery_log =>
               /\ pc = "done"
               /\ outcome = Raised("DiscoveryError", "radar_agent")
               /\ discovery_log = {"radar_failed"}
               /\ ~Queried
        /\ "visual_failed" \in discovery_log =>
               /\ pc = "done"
               /\ outcome = Raised("DiscoveryError", "visual_agent")
               /\ ~Queried

C27_Witness ==
    /\ proto = 4
    /\ caller = "execute_fusion"
    /\ runs = 2
    /\ visual_card # None
    /\ discovery_log = {"radar_failed"}
    /\ pc = "done"
    /\ outcome.kind = "raised"
    /\ radar_call = "idle" /\ visual_call = "idle"

(***************************************************************************)
(* C28: agent executor event order.  In every execute() call a result      *)
(* reading is preceded by the progress message, at most one result is      *)
(* enqueued, an error message is enqueued only when no result was, and a   *)
(* call in which no enqueue failed returns (raises nothing) with at least  *)
(* one event enqueued.                                                     *)
(***************************************************************************)
Events(kind) == {i \in DOMAIN event_queue : event_queue[i].kind = kind}

C28_EventOrder ==
    /\ \A i \in Events("result") : \E j \in Events("progress") : j < i
    /\ Cardinality(Events("result")) <= 1
    /\ Events("error") # {} => Events("result") = {}
    /\ ~executor.enqueue_failed =>
           /\ executor.pc # "raised"
           /\ executor.pc = "returned" => Len(event_queue) >= 1
    /\ executor.pc = "returned" /\ Events("result") # {} =>
           event_queue[Len(event_queue)].body = executor.reading[1]

C28_Witness ==
    /\ executor.pc = "returned"
    /\ executor.agent = "visual_agent"
    /\ executions = 2
    /\ Len(event_queue) = 2
    /\ event_queue[1].kind = "progress"
    /\ event_queue[2].kind = "result"
    /\ event_queue[2].body.certainty_percent = 99

(***************************************************************************)
(* C29: for every input of validate the score before the floor is one of   *)
(* 0, 10, ..., 100, so the floor at 0 never changes it: the reported       *)
(* quality_score is 100 minus the deductions.  Hence the recommendation    *)
(* and is_valid, which the code computes from the unfloored score, agree   *)
(* with the thresholds applied to the reported score; the score is 100     *)
(* exactly when there are no warnings; and there are at most three         *)
(* warnings.                                                               *)
(***************************************************************************)
Unfloored ==
    100 - Deduction(Req.radar_range_meters, Req.radar_azimuth_degrees,
                    Req.visual_certainty_percent)

C29_ScoreGrid ==
    Validated =>
        /\ Unfloored \in {10 * k : k \in 0 .. 10}
        /\ Resp.quality_score = Unfloored
        /\ Resp.recommendation =
               (IF Resp.quality_score > AcceptAbove THEN "ACCEPT"
                ELSE IF Resp.quality_score > RejectAtOrBelow THEN "REVIEW"
                ELSE "REJECT")
        /\ Resp.is_valid =
               (Resp.warnings = <<>> \/ Resp.quality_score > RejectAtOrBelow)
        /\ Resp.quality_score = 100 <=> Resp.warnings = <<>>
        /\ Len(Resp.warnings) <= 3

C29_Witness ==
    /\ Validated
    /\ Req.radar_range_meters = -1
    /\ Req.radar_azimuth_degrees = 400
    /\ Req.visual_certainty_percent = 40
    /\ Unfloored = 0
    /\ Resp.quality_score = 0
    /\ Len(Resp.warnings) = 3
    /\ Resp.recommendation = "REJECT"

(***************************************************************************)
(* C30: prototype 2's in-process normalizer and prototype 3's MCP server   *)
(* normalizer return the same x_pos, y_pos, target_type and confidence for *)
(* every radar reading and every visual reading with a whole certainty in  *)
(* 0..100, although only the server rounds the confidence (in hundredths   *)
(* there, in units of 10^-5 in process).                                   *)
(***************************************************************************)
BothNormalized == Normalized /\ normalized_target # None

C30_SameTarget ==
    BothNormalized =>
        /\ normalized_target[1].x_pos = Resp.x_pos
        /\ normalized_target[1].y_pos = Resp.y_pos
        /\ normalized_target[1].target_type = Resp.target_type
        /\ normalized_target[1].confidence = Resp.confidence * 1000

C30_Witness ==
    /\ BothNormalized
    /\ Req.radar_range_meters = 3000
    /\ Req.radar_azimuth_degrees = 61
    /\ Req.visual_certainty_percent = 85
    /\ Resp.x_pos = 145443
    /\ normalized_target[1].x_pos = 145443
    /\ normalized_target[1].confidence = 85000
    /\ Resp.confidence = 85
=============================================================================
